---- MODULE Spec2Model ----
(***************************************************************************)
(* A model of the DS2490 USB 1-Wire bus master driver (ds2490.c).          *)
(*                                                                         *)
(* The handle (owusb_device_t) is the record dev.  Every API function is   *)
(* one action; the transport calls it makes (usb_bulk_write,               *)
(* usb_control_msg, usb_bulk_read) are recorded, in order, in io, each     *)
(* with the value it returned.  A transport call may fail (return -1) or   *)
(* deliver fewer bytes than were available; both are chosen by the         *)
(* environment.                                                            *)
(*                                                                         *)
(* Bytes are the integers 0..255, buffers are functions from 0-based       *)
(* indices to bytes, as in C.                                              *)
(***************************************************************************)
EXTENDS Integers, Sequences, FiniteSets, TLC

VARIABLES
    dev,        \* the handle: owusb_device_t
    bus,        \* the 1-Wire devices on the bus (set of 8-byte addresses)
    op,         \* the API function called last
    args,       \* its arguments
    ret,        \* its return value
    io,         \* the transport calls it made, in order
    data,       \* the caller's 8-byte address buffer of search_first/next
    hist,       \* the results (return value, buffer) of the calls since and
                \* including the last owusb_search_first, while every transport
                \* call of theirs succeeded and delivered all there was; <<>>
                \* otherwise
    readdata,   \* the caller's read buffer of owusb_block_io
    readdata0,  \* what that buffer held when owusb_block_io was called
    rx,         \* the bytes the data-in bulk read of the last call delivered
    dev0,       \* the handle as the last call found it
    pc          \* the loop a call in progress is in, "idle" when none is

vars == <<dev, bus, op, args, ret, io, data, hist, readdata, readdata0, rx, dev0, pc>>

(***************************************************************************)
(* Bit arithmetic on naturals.                                             *)
(***************************************************************************)
RECURSIVE BitAnd(_, _)
BitAnd(a, b) ==
    IF a = 0 \/ b = 0 THEN 0
    ELSE (a % 2) * (b % 2) + 2 * BitAnd(a \div 2, b \div 2)

RECURSIVE BitOr(_, _)
BitOr(a, b) ==
    IF a = 0 THEN b
    ELSE IF b = 0 THEN a
    ELSE (IF a % 2 = 1 \/ b % 2 = 1 THEN 1 ELSE 0) + 2 * BitOr(a \div 2, b \div 2)

Pow2(n) == 2 ^ n

\* bit i (0..63) of an 8-byte address; bit 0 is the lowest bit of byte 0
AddrBit(a, i) == (a[i \div 8] \div Pow2(i % 8)) % 2

Zeros8 == [i \in 0..7 |-> 0]

(***************************************************************************)
(* Constants of ds2490.h and ds2490.c.                                     *)
(***************************************************************************)
PARAM_RTS == 16384
PARAM_SM == 8
PARAM_SPU == 4096
PARAM_F == 2048
PARAM_NTF == 1024
PARAM_ICP == 512
PARAM_RST == 256
PARAM_IM == 1
COMM_CMD == 1
COM_BIT_IO == 32
COM_BLOCK_IO == 116
COM_READ_STRAIGHT == 128
PARAM_D == 8
COM_SEARCH_ACCESS == 244
DS2490_FIFOSIZE == 128
USB_TIMEOUT == 5000
INTERRUPT_DATA_LEN == 32
CONTROL_CMD == 0
MODE_CMD == 2
CTL_RESET_DEVICE == 0
CTL_START_EXE == 1
CTL_RESUME_EXE == 2
CTL_HALT_EXE_IDLE == 3
CTL_HALT_EXE_DONE == 4
CTL_FLUSH_COMM_CMDS == 7
CTL_FLUSH_RCV_BUFFER == 8
CTL_FLUSH_XMT_BUFFER == 9
CTL_GET_COMM_CMDS == 10
MOD_PULSE_EN == 0
MOD_SPEED_CHANGE_EN == 1
MOD_1WIRE_SPEED == 2
MOD_STRONG_PU_DURATION == 3
MOD_PULLDOWN_SLEWRATE == 4
MOD_PROG_PULSE_DURATION == 5
MOD_WRITE1_LOWTIME == 6
MOD_DSOW0_TREC == 7
COM_SET_DURATION == 18
COM_PULSE == 48
COM_RESET == 66
COM_BYTE_IO == 82
COM_MATCH_ACCESS == 100
COM_DO_AND_RELEASE == 146
COM_SET_PATH == 162
COM_WRITE_SRAM_PAGE == 178
COM_WRITE_EPROM == 196
COM_READ_CRC_PROT_PAGE == 212
COM_READ_REDIRECT_PAGE == 228
PARAM_PST == 16384
PARAM_TYPE == 8

\* usb_control_msg carries value and index in 16-bit fields of the setup packet
Word(x) == x % 65536

(***************************************************************************)
(* Transport calls, as recorded in io.                                     *)
(***************************************************************************)
BulkWrite(bytes, r) == [call |-> "bulk_write", data |-> bytes, ret |-> r]
BulkRead(max, r) == [call |-> "bulk_read", len |-> max, ret |-> r]
Control(msg, r) == [call |-> "control", request |-> msg.request,
                    value |-> msg.value, index |-> msg.index, ret |-> r]

\* the bytes of buffer b at indices 0..n-1, as a sequence
Bytes(b, n) == [k \in 1..n |-> b[k - 1]]

(***************************************************************************)
(* owusb_com_search_access: the setup packet it sends.                     *)
(***************************************************************************)
owusb_com_search_access_nosm(params, discrepancy, noaccess, device_count, cmd) ==
    LET p1 == IF discrepancy # 0 THEN BitOr(params, PARAM_RTS) ELSE params
    IN  [request |-> COMM_CMD,
         value   |-> Word(BitOr(COM_SEARCH_ACCESS, p1)),
         index   |-> Word(BitOr(device_count * 256, cmd))]

owusb_com_search_access(params, discrepancy, noaccess, device_count, cmd) ==
    LET index == BitOr(device_count * 256, cmd)
        p1 == IF discrepancy # 0 THEN BitOr(params, PARAM_RTS) ELSE params
        p2 == IF noaccess # 0 THEN BitOr(p1, PARAM_SM) ELSE p1
    IN  [request |-> COMM_CMD,
         value   |-> Word(BitOr(COM_SEARCH_ACCESS, p2)),
         index   |-> Word(index)]

(***************************************************************************)
(* compare: the new discrepancy byte for a byte of the address and its     *)
(* byte of the discrepancy block, or 0 when the byte holds no position     *)
(* where the block has 1 and the address 0.                                *)
(***************************************************************************)
RECURSIVE compare_loop(_, _, _, _)
compare_loop(disc, addr, mask, mask2) ==
    IF mask = 0 THEN 0
    ELSE IF BitAnd(mask, disc) # 0 /\ BitAnd(mask, addr) = 0
         THEN BitOr(BitAnd(BitAnd(disc, addr), mask2), mask)
         ELSE compare_loop(disc, addr, mask \div 2, mask2 \div 2)

compare(disc, addr) == compare_loop(disc, addr, 128, 255)

(***************************************************************************)
(* The loop of owusb_search_next over i = 7..0 that computes the new       *)
(* discrepancy bitmap from the 16 bytes read (disc[0..7] the address,      *)
(* disc[8..15] the discrepancy block).                                     *)
(***************************************************************************)
RECURSIVE discrepancy_loop(_, _, _, _)
discrepancy_loop(disc, i, set, acc) ==
    IF i < 0 THEN acc
    ELSE LET b == compare(disc[i + 8], disc[i])
         IN  IF disc[i] # 0 /\ ~set /\ b # 0
             THEN discrepancy_loop(disc, i - 1, TRUE, [acc EXCEPT ![i] = b])
             ELSE discrepancy_loop(disc, i - 1, set,
                      [acc EXCEPT ![i] = IF set THEN BitAnd(disc[i], disc[i + 8])
                                                ELSE 0])

new_discrepancy(old, disc) == discrepancy_loop(disc, 7, FALSE, old)

(***************************************************************************)
(* The bus, as the controller sees it (spec section 4.5).  A search-access *)
(* command for one device walks the address bits 0..63.  Where the devices *)
(* still taking part disagree, it marks the position in the discrepancy    *)
(* block and follows the bit of the 8 bytes the host wrote.  It returns    *)
(* the address found, followed by the discrepancy block when a position    *)
(* remains where it was marked and the address has 0 (a branch not yet     *)
(* taken); on an empty bus it returns nothing.                             *)
(***************************************************************************)
SetBit(b, i) == [b EXCEPT ![i \div 8] = BitOr(@, Pow2(i % 8))]

RECURSIVE BusWalk(_, _, _, _)
BusWalk(S, pattern, i, D) ==
    IF i = 64 THEN [addr |-> CHOOSE a \in S : TRUE, disc |-> D]
    ELSE IF i % 8 = 0 /\ \A a, b \in S : a[i \div 8] = b[i \div 8]
    THEN BusWalk(S, pattern, i + 8, D)     \* no device differs in this byte
    ELSE LET bits == {AddrBit(a, i) : a \in S}
             both == bits = {0, 1}
             dir  == IF both THEN AddrBit(pattern, i) ELSE CHOOSE b \in bits : TRUE
         IN  BusWalk({a \in S : AddrBit(a, i) = dir}, pattern, i + 1,
                     IF both THEN SetBit(D, i) ELSE D)

BusResponse(devices, pattern) ==
    IF devices = {} THEN <<>>
    ELSE LET w == BusWalk(devices, pattern, 0, Zeros8)
             more == \E k \in 0..7 : BitAnd(w.disc[k], 255 - w.addr[k]) # 0
         IN  IF more THEN Bytes(w.addr, 8) \o Bytes(w.disc, 8)
                     ELSE Bytes(w.addr, 8)

(***************************************************************************)
(* owusb_search_next.  wr, ctl and r are what the bulk write, the control  *)
(* transfer and the bulk read return; resp holds the bytes the read        *)
(* delivers into the local buffer disc (resp[1] is disc[0]); the bytes of  *)
(* disc past the r delivered are never read.  The result is the handle,    *)
(* the caller's buffer, the return value and the transport calls made.     *)
(***************************************************************************)
search_stopped_never(d) == FALSE

search_stopped(d) == d.search_stop # 0

short_read_negative(r) == r < 0

short_read(r) == r < 8

\* the handle after a read of r >= 8 bytes into disc
search_read_done_nostop(d, r, disc) ==
    IF r = 16 THEN [d EXCEPT !.discrepancy = new_discrepancy(@, disc)] ELSE d

search_read_done(d, r, disc) ==
    IF r = 16 THEN [d EXCEPT !.discrepancy = new_discrepancy(@, disc)]
    ELSE [d EXCEPT !.search_stop = 1]

search_params_nof == BitOr(PARAM_RST, PARAM_IM)

search_params == BitOr(PARAM_F, BitOr(PARAM_RST, PARAM_IM))

owusb_search_next(d, buf, wr, ctl, r, resp) ==
    LET w  == BulkWrite(Bytes(d.discrepancy, 8), wr)
        c  == Control(owusb_com_search_access(search_params, 1, 1, 1, d.search_cmd), ctl)
        rd == BulkRead(16, r)
        disc == [k \in 0..15 |-> IF k < r THEN resp[k + 1] ELSE 0]
    IN  IF search_stopped(d)
        THEN [dev |-> d, data |-> buf, ret |-> 0, io |-> <<>>]
        ELSE IF wr < 0
        THEN [dev |-> d, data |-> buf, ret |-> 0, io |-> <<w>>]
        ELSE IF ctl < 0
        THEN [dev |-> d, data |-> buf, ret |-> 0, io |-> <<w, c>>]
        ELSE IF short_read(r)
        THEN [dev |-> [d EXCEPT !.search_stop = 1], data |-> buf, ret |-> 0,
              io |-> <<w, c, rd>>]
        ELSE [dev |-> search_read_done(d, r, disc),
              data |-> [k \in 0..7 |-> disc[k]], ret |-> 1, io |-> <<w, c, rd>>]

(***************************************************************************)
(* owusb_search_first: the handle as owusb_search_next finds it.           *)
(***************************************************************************)
search_first_reset_keep(d, type) ==
    [d EXCEPT !.search_cmd = type, !.search_stop = 0, !.last_bit = 0, !.last_byte = 0]

search_first_reset(d, type) ==
    [d EXCEPT !.search_cmd = type, !.search_stop = 0, !.discrepancy = Zeros8,
              !.last_bit = 0, !.last_byte = 0]

(***************************************************************************)
(* The encoders used by the byte-level operations: the setup packet each   *)
(* sends.                                                                  *)
(***************************************************************************)
owusb_com_bit_io(params, bit) ==
    LET p == IF bit # 0 THEN BitOr(params, PARAM_D) ELSE params
    IN  [request |-> COMM_CMD, value |-> Word(BitOr(COM_BIT_IO, p)), index |-> 0]

owusb_com_block_io(params, len) ==
    [request |-> COMM_CMD, value |-> Word(BitOr(COM_BLOCK_IO, params)), index |-> Word(len)]

owusb_com_read_straight(params, writelen, readlen) ==
    LET p1 == IF BitAnd(params, PARAM_NTF) # 0 THEN 8 ELSE 0
        p2 == IF BitAnd(params, PARAM_ICP) # 0 THEN BitOr(p1, 4) ELSE p1
        p3 == IF BitAnd(params, PARAM_RST) # 0 THEN BitOr(p2, 2) ELSE p2
        p4 == IF BitAnd(params, PARAM_IM) # 0 THEN BitOr(p3, 1) ELSE p3
        p  == BitOr(p4, writelen * 256)
    IN  [request |-> COMM_CMD, value |-> Word(BitOr(COM_READ_STRAIGHT, p)),
         index |-> Word(readlen)]

(***************************************************************************)
(* owusb_block_io.  w1, w2, ctl and r are what the two bulk writes, the    *)
(* control transfer and the bulk read return.  tmpbuf is the local receive *)
(* buffer after the read: the bytes delivered, and below them whatever the *)
(* uninitialised buffer held.  rbuf is the caller's read buffer.           *)
(***************************************************************************)
block_io_flags_norst(reset, spu) ==
    IF spu # 0 THEN BitOr(PARAM_IM, PARAM_SPU) ELSE PARAM_IM

block_io_flags(reset, spu) ==
    LET f1 == IF reset # 0 THEN BitOr(PARAM_IM, PARAM_RST) ELSE PARAM_IM
    IN  IF spu # 0 THEN BitOr(f1, PARAM_SPU) ELSE f1

block_io_calls_reset(writedata, wl, rl, reset, spu, w1, w2, ctl, r) ==
    (IF wl # 0 THEN <<BulkWrite(writedata, w1)>> ELSE <<>>)
        \o (IF rl # 0 THEN <<BulkWrite([k \in 1..rl |-> 255], w2)>> ELSE <<>>)
        \o <<Control(owusb_com_block_io(block_io_flags(reset, spu), wl + rl), ctl),
             BulkRead(DS2490_FIFOSIZE, r),
             Control([request |-> 0, value |-> 0, index |-> 0], 0)>>

\* the transport calls, in order
block_io_calls(writedata, wl, rl, reset, spu, w1, w2, ctl, r) ==
    (IF wl # 0 THEN <<BulkWrite(writedata, w1)>> ELSE <<>>)
        \o (IF rl # 0 THEN <<BulkWrite([k \in 1..rl |-> 255], w2)>> ELSE <<>>)
        \o <<Control(owusb_com_block_io(block_io_flags(reset, spu), wl + rl), ctl),
             BulkRead(DS2490_FIFOSIZE, r)>>

\* memcmp(tmpbuf, writedata, writedatalen) != 0
block_io_mismatch(tmpbuf, writedata, wl) ==
    \E k \in 0..(wl - 1) : tmpbuf[k] # writedata[k + 1]

\* memset(readdata, 0xff, readdatalen)
block_io_fill_none(rbuf, rl) == rbuf

block_io_fill(rbuf, rl) == [k \in DOMAIN rbuf |-> IF k < rl THEN 255 ELSE rbuf[k]]

owusb_block_io(writedata, wl, rbuf, rl, reset, spu, w1, w2, ctl, r, tmpbuf) ==
    LET calls  == block_io_calls(writedata, wl, rl, reset, spu, w1, w2, ctl, r)
        filled == IF rl # 0 THEN block_io_fill(rbuf, rl) ELSE rbuf
    IN  IF wl # 0 /\ block_io_mismatch(tmpbuf, writedata, wl)
        THEN [ret |-> -1, readdata |-> filled, io |-> calls]
        ELSE [ret |-> 0,
              readdata |-> [k \in DOMAIN filled |->
                               IF k < rl THEN tmpbuf[wl + k] ELSE filled[k]],
              io |-> calls]

(***************************************************************************)
(* owusb_cmd: the 10 bytes written are Match ROM, the address, the command.*)
(* out is the caller's buffer after the read.                              *)
(***************************************************************************)
owusb_cmd(addr, cmd, outlen, w, ctl, r) ==
    [ret |-> r,
     io  |-> <<BulkWrite(<<85>> \o Bytes(addr, 8) \o <<cmd>>, w),
               Control(owusb_com_read_straight(BitOr(PARAM_RST, PARAM_IM), 10, outlen), ctl),
               BulkRead(outlen, r)>>]

(***************************************************************************)
(* owusb_read_bit: bit is the local byte after the read (uninitialised     *)
(* when the read delivered nothing).                                       *)
(***************************************************************************)
owusb_read_bit(ctl, r, bit) ==
    [ret |-> bit,
     io  |-> <<Control(owusb_com_bit_io(PARAM_IM, 1), ctl), BulkRead(1, r)>>]


(***************************************************************************)
(* Bounds of the model.                                                    *)
(***************************************************************************)
MaxDevices == 2     \* devices on the bus
MaxCalls == 4       \* search calls followed after one owusb_search_first

\* device addresses: byte 0 is lo, bytes 1..6 are mid, byte 7 is hi
Address(lo, mid, hi) ==
    [i \in 0..7 |-> IF i = 0 THEN lo ELSE IF i = 7 THEN hi ELSE mid]

Addresses ==
    {Address(lo, 0, hi) : lo \in {0, 1, 2, 3}, hi \in {0, 128}}
        \cup {Address(2, 40, hi) : hi \in {0, 128}}

Buses == {b \in SUBSET Addresses : Cardinality(b) <= MaxDevices}

\* ROM commands: search ROM, conditional search ROM
SearchCmds == {240, 236}

\* what the caller's address buffer holds before the first call
Filler8 == [i \in 0..7 |-> 238]

(***************************************************************************)
(* The handle after owusb_init_dev: owusb_devs is static storage, zeroed.  *)
(***************************************************************************)
InitDev ==
    [handle |-> "h", timeout |-> USB_TIMEOUT,
     interrupt_data |-> [i \in 0..(INTERRUPT_DATA_LEN - 1) |-> 0],
     interrupt_len |-> 0, interrupt_count |-> 0,
     discrepancy |-> Zeros8, search_stop |-> 0,
     search_cmd |-> 0, last_bit |-> 0, last_byte |-> 0]

Idle ==
    /\ op = "init"
    /\ args = <<>>
    /\ ret = 0
    /\ io = <<>>
    /\ data = Filler8
    /\ hist = <<>>
    /\ readdata = <<>>
    /\ readdata0 = <<>>
    /\ rx = <<>>
    /\ dev0 = dev
    /\ pc = "idle"

Init ==
    /\ bus \in Buses
    /\ dev = InitDev
    /\ Idle

(***************************************************************************)
(* The search calls.  The environment chooses what each transport call     *)
(* returns: -1 for a failed transfer, and for the bulk read any number of  *)
(* bytes up to what the controller has to deliver.                         *)
(***************************************************************************)
ReadReturns(n) == {-1, n} \cup {k \in {0, 7, 8, 15} : k < n}

TransportOutcomes(n) ==
    {<<-1, 0, 0>>, <<8, -1, 0>>} \cup {<<8, 0, r>> : r \in ReadReturns(n)}

SearchCall(name, d, type) ==
    \E resp \in {BusResponse(bus, d.discrepancy)} :
    \E t \in IF search_stopped(d) THEN {<<8, 0, 0>>} ELSE TransportOutcomes(Len(resp)) :
    \E res \in {owusb_search_next(d, data, t[1], t[2], t[3], resp)} :
        LET full == search_stopped(d) \/ (t[1] >= 0 /\ t[2] >= 0 /\ t[3] = Len(resp))
            h    == [ret |-> res.ret, addr |-> res.data]
        IN  /\ dev' = res.dev
            /\ data' = res.data
            /\ ret' = res.ret
            /\ io' = res.io
            /\ op' = name
            /\ args' = type
            /\ hist' = IF ~full THEN <<>>
                       ELSE IF name = "search_first" THEN <<h>>
                       ELSE IF hist = <<>> THEN hist
                       ELSE Append(hist, h)
            /\ rx' = IF Len(res.io) = 3 /\ t[3] > 0 THEN SubSeq(resp, 1, t[3]) ELSE <<>>
            /\ dev0' = dev
            /\ UNCHANGED <<bus, readdata, readdata0, pc>>

SearchFirst ==
    \E type \in SearchCmds :
    \E d \in {search_first_reset(dev, type)} : SearchCall("search_first", d, type)

SearchNext ==
    /\ Len(hist) < MaxCalls
    /\ SearchCall("search_next", dev, 0)

Next == SearchFirst \/ SearchNext

Spec == Init /\ [][Next]_vars

(***************************************************************************)
(* The byte-level operations.  A call starts when the record of the last   *)
(* one has been cleared (CallDone); the handle is not touched by any of    *)
(* them.                                                                   *)
(***************************************************************************)
MaxWrite == 2       \* bytes written by one owusb_block_io
MaxRead == 2        \* bytes read by one owusb_block_io or owusb_cmd

\* byte k of the caller's write buffer
WriteByte(k) == IF k % 2 = 1 THEN 85 ELSE 190

\* bytes the controller delivers, and bytes an uninitialised buffer holds
RxBytes == {85, 190}

\* the caller's read buffer before a call
ReadFiller == [k \in 0..(MaxRead - 1) |-> 17]

NoCall ==
    /\ op' = "init"
    /\ args' = <<>>
    /\ ret' = 0
    /\ io' = <<>>
    /\ readdata' = <<>>
    /\ readdata0' = <<>>
    /\ rx' = <<>>
    /\ dev0' = dev

InitIO ==
    /\ bus = {}
    /\ dev = InitDev
    /\ Idle

BlockIO ==
    /\ op = "init"
    /\ \E wl \in 0..MaxWrite, rl \in 0..MaxRead, reset \in {0, 1}, spu \in {0, 1} :
       \E w1 \in IF wl = 0 THEN {0} ELSE {-1, wl}, w2 \in IF rl = 0 THEN {0} ELSE {-1, rl} :
       \E ctl \in {-1, 0}, r \in -1..(wl + rl) :
       \E tmpbuf \in [0..(wl + rl - 1) -> RxBytes] :
       \E res \in {owusb_block_io([k \in 1..wl |-> WriteByte(k)], wl, ReadFiller, rl,
                                  reset, spu, w1, w2, ctl, r, tmpbuf)} :
           /\ op' = "block_io"
           /\ args' = [writedata |-> [k \in 1..wl |-> WriteByte(k)], writedatalen |-> wl,
                       readdatalen |-> rl, reset |-> reset, spu |-> spu]
           /\ ret' = res.ret
           /\ io' = res.io
           /\ readdata0' = ReadFiller
           /\ readdata' = res.readdata
           /\ rx' = [k \in 1..r |-> tmpbuf[k - 1]]
           /\ dev0' = dev
           /\ UNCHANGED <<dev, bus, data, hist, pc>>

Cmd ==
    /\ op = "init"
    /\ \E addr \in Addresses, outlen \in 0..MaxRead, w \in {-1, 10}, ctl \in {-1, 0} :
       \E r \in -1..outlen :
       \E bytes \in [1..r -> RxBytes] :
       \E res \in {owusb_cmd(addr, 190, outlen, w, ctl, r)} :
           /\ op' = "cmd"
           /\ args' = [addr |-> addr, cmd |-> 190, outlen |-> outlen]
           /\ ret' = res.ret
           /\ io' = res.io
           /\ readdata0' = ReadFiller
           /\ readdata' = [k \in 0..(MaxRead - 1) |->
                              IF k < r THEN bytes[k + 1] ELSE ReadFiller[k]]
           /\ rx' = bytes
           /\ dev0' = dev
           /\ UNCHANGED <<dev, bus, data, hist, pc>>

ReadBit ==
    /\ op = "init"
    /\ \E ctl \in {-1, 0}, r \in {-1, 0, 1}, bit \in {0, 1, 255} :
       \E res \in {owusb_read_bit(ctl, r, bit)} :
           /\ op' = "read_bit"
           /\ args' = <<>>
           /\ ret' = res.ret
           /\ io' = res.io
           /\ rx' = IF r = 1 THEN <<bit>> ELSE <<>>
           /\ dev0' = dev
           /\ UNCHANGED <<dev, bus, data, hist, readdata, readdata0, pc>>

CallDone ==
    /\ op # "init"
    /\ NoCall
    /\ UNCHANGED <<dev, bus, data, hist, pc>>

NextIO == BlockIO \/ Cmd \/ ReadBit \/ CallDone

SpecIO == InitIO /\ [][NextIO]_vars

(***************************************************************************)
(* owusb_block_io with lengths up to the FIFO size.  No length is          *)
(* refused: tmpbuf has DS2490_FIFOSIZE bytes whatever the lengths are.     *)
(***************************************************************************)
BlockLens == {0, 1, DS2490_FIFOSIZE - 1, DS2490_FIFOSIZE}

\* the indices of tmpbuf[] that memcmp reads, and that memcpy reads when
\* the call gets that far (it returns 0)
block_io_tmpbuf(wl, rl, result) ==
    (IF wl # 0 THEN 0..(wl - 1) ELSE {})
        \cup (IF rl # 0 /\ result = 0 THEN wl..(wl + rl - 1) ELSE {})

\* tmpbuf after the bulk read of n bytes: the bytes written come back
\* (or, echo = 0, the first does not), then byte b for each byte read;
\* above the n bytes what the uninitialised buffer held, and from index
\* DS2490_FIFOSIZE on what lies behind the buffer
block_io_tmpbuf_after(wl, top, n, echo, b, junk, behind) ==
    [k \in 0..top |->
        IF k >= DS2490_FIFOSIZE THEN behind
        ELSE IF k >= n THEN junk
        ELSE IF k >= wl THEN b
        ELSE IF k = 0 /\ echo = 0 THEN 255 - WriteByte(1)
        ELSE WriteByte(k + 1)]

BlockIOLong ==
    /\ op = "init"
    /\ \E wl \in BlockLens, rl \in BlockLens, reset \in {0, 1}, spu \in {0, 1} :
       \E w1 \in IF wl = 0 THEN {0} ELSE {-1, wl}, w2 \in IF rl = 0 THEN {0} ELSE {-1, rl} :
       \E ctl \in {-1, 0}, r \in {-1, 0, IF wl + rl < DS2490_FIFOSIZE THEN wl + rl ELSE DS2490_FIFOSIZE} :
       \E echo \in {0, 1}, b \in RxBytes, junk \in RxBytes, behind \in RxBytes :
       \E tmpbuf \in {block_io_tmpbuf_after(wl, wl + rl + DS2490_FIFOSIZE - 1, r, echo, b, junk, behind)} :
       \E res \in {owusb_block_io([k \in 1..wl |-> WriteByte(k)], wl, [k \in 0..(rl - 1) |-> 17], rl,
                                  reset, spu, w1, w2, ctl, r, tmpbuf)} :
           /\ op' = "block_io"
           /\ args' = [writedata |-> [k \in 1..wl |-> WriteByte(k)], writedatalen |-> wl,
                       readdatalen |-> rl, reset |-> reset, spu |-> spu]
           /\ ret' = res.ret
           /\ io' = res.io
           /\ readdata0' = [k \in 0..(rl - 1) |-> 17]
           /\ readdata' = res.readdata
           /\ rx' = [k \in 1..r |-> tmpbuf[k - 1]]
           /\ dev0' = dev
           /\ UNCHANGED <<dev, bus, data, hist, pc>>

NextLong == BlockIOLong \/ CallDone

SpecLong == InitIO /\ [][NextLong]_vars


(***************************************************************************)
(* The search-access encoder called on its own, on a fresh handle and on a *)
(* handle whose search has ended.                                          *)
(***************************************************************************)
\* flag words: none, RST|IM, F|RST|IM, NTF|ICP, all five, and the two
\* command-specific bits handed in directly
EncParams == {0, 257, 2305, 1536, 3841, PARAM_RTS, PARAM_SM}

EncDeviceCounts == {0, 1, 255}

EncDevs == {InitDev, [InitDev EXCEPT !.search_cmd = 240, !.search_stop = 1]}

InitEnc ==
    /\ bus = {}
    /\ dev \in EncDevs
    /\ Idle

ComSearchAccess ==
    \E params \in EncParams, discrepancy \in {0, 1}, noaccess \in {0, 1} :
    \E device_count \in EncDeviceCounts, cmd \in SearchCmds, r \in {-1, 0} :
        /\ op' = "com_search_access"
        /\ args' = [params |-> params, discrepancy |-> discrepancy, noaccess |-> noaccess,
                    device_count |-> device_count, cmd |-> cmd]
        /\ ret' = r
        /\ io' = <<Control(owusb_com_search_access(params, discrepancy, noaccess,
                                                   device_count, cmd), r)>>
        /\ dev0' = dev
        /\ UNCHANGED <<dev, bus, data, hist, readdata, readdata0, rx, pc>>

NextEnc == ComSearchAccess

SpecEnc == InitEnc /\ [][NextEnc]_vars


(***************************************************************************)
(* The command encoders: the setup packet each sends.  A Control command   *)
(* also records the length of its data phase.                              *)
(***************************************************************************)
Ctl(code, length) ==
    [request |-> CONTROL_CMD, value |-> code, index |-> 0, length |-> length]

owusb_ctl_reset == Ctl(CTL_RESET_DEVICE, 0)
owusb_ctl_start_exe == Ctl(CTL_START_EXE, 0)
owusb_ctl_resume_exe == Ctl(CTL_RESUME_EXE, 0)
owusb_ctl_halt_exe_idle == Ctl(CTL_HALT_EXE_IDLE, 0)
owusb_ctl_halt_exe_done == Ctl(CTL_HALT_EXE_DONE, 0)
owusb_ctl_flush_comm_cmds == Ctl(CTL_FLUSH_COMM_CMDS, 0)
owusb_ctl_flush_rcv_buffer == Ctl(CTL_FLUSH_RCV_BUFFER, 0)
owusb_ctl_flush_xmt_buffer == Ctl(CTL_FLUSH_XMT_BUFFER, 0)
owusb_ctl_get_comm_cmds(len) == Ctl(CTL_RESUME_EXE, len)

Mod(code, index) == [request |-> MODE_CMD, value |-> code, index |-> index]

owusb_mod_pulse_en(params) == Mod(MOD_PULSE_EN, BitAnd(params, 3))
owusb_mod_speed_change_en(enable) == Mod(MOD_SPEED_CHANGE_EN, BitAnd(enable, 1))
owusb_mod_speed(speed) == Mod(MOD_1WIRE_SPEED, BitAnd(speed, 3))
owusb_mod_strong_pu_duration(duration) == Mod(MOD_STRONG_PU_DURATION, BitAnd(duration, 255))
owusb_mod_pulldown_slewrate(slewrate) == Mod(MOD_PULLDOWN_SLEWRATE, BitAnd(slewrate, 15))
owusb_mod_prog_pulse_duration(duration) == Mod(MOD_PROG_PULSE_DURATION, BitAnd(duration, 255))
owusb_mod_write1_lowtime(duration) == Mod(MOD_WRITE1_LOWTIME, BitAnd(duration, 15))
owusb_mod_dsow0_trec(duration) == Mod(MOD_DSOW0_TREC, BitAnd(duration, 15))

Com(value, index) == [request |-> COMM_CMD, value |-> Word(value), index |-> Word(index)]

owusb_com_set_duration(params, type, duration) ==
    LET p == IF type # 0 THEN BitOr(params, PARAM_TYPE) ELSE params
    IN  Com(BitOr(p, COM_SET_DURATION), BitAnd(duration, 255))

owusb_com_pulse(params, type) ==
    LET p == IF type # 0 THEN BitOr(params, PARAM_TYPE) ELSE params
    IN  Com(BitOr(p, COM_PULSE), 0)

owusb_com_reset_pst(params, present, speed) ==
    Com(BitOr(BitOr(params, PARAM_PST), COM_RESET), BitAnd(speed, 3))

owusb_com_reset(params, present, speed) ==
    LET p == IF present # 0 THEN BitOr(params, PARAM_PST) ELSE params
    IN  Com(BitOr(p, COM_RESET), BitAnd(speed, 3))

owusb_com_byte_io(params, byte) == Com(BitOr(COM_BYTE_IO, params), BitAnd(byte, 255))

owusb_com_match_access(params, speed, cmd) ==
    Com(BitOr(COM_MATCH_ACCESS, params), BitAnd(speed * 256, cmd))

owusb_com_do_and_release(params, len) ==
    Com(BitOr(24576, BitOr(COM_DO_AND_RELEASE, params)), BitAnd(len, 255))

owusb_com_set_path(params, len) == Com(BitOr(COM_SET_PATH, params), BitAnd(len, 255))

owusb_com_write_sram_page(params, len) ==
    Com(BitOr(COM_WRITE_SRAM_PAGE, params), BitAnd(len, 255))

owusb_com_write_eprom(params, len) == Com(BitOr(COM_WRITE_EPROM, params), len)

owusb_com_read_crc_prot_page(params, page_count, page_size) ==
    Com(BitOr(COM_READ_CRC_PROT_PAGE, params), BitOr(page_count * 256, page_size))

owusb_com_read_redirect_page(params, page_number, page_size) ==
    Com(BitOr(COM_READ_REDIRECT_PAGE, BitOr(8448, params)),
        BitOr(page_number * 256, page_size))

(***************************************************************************)
(* The state/result decoder and the poll loops.                            *)
(***************************************************************************)
RESULT_DETECT == 165
RESULT_XDETECT == 256
STATE_STATUS_FLAGS == 8
STATE_COMBYTE2 == 10
STATE_DATA_IN_BUFFER_STATUS == 13

\* usb_interrupt_read, as recorded in io
InterruptRead(r) == [call |-> "interrupt_read", len |-> INTERRUPT_DATA_LEN, ret |-> r]

\* owusb_interrupt_read: r is what usb_interrupt_read returns, report the
\* bytes the controller has to deliver; the r bytes delivered replace the
\* first r bytes of the stored report
owusb_interrupt_read(d, r, report) ==
    [d EXCEPT !.interrupt_len = r,
              !.interrupt_data = [i \in 0..(INTERRUPT_DATA_LEN - 1) |->
                                     IF i < r THEN report[i] ELSE @[i]],
              !.interrupt_count = @ + 1]

owusb_datain(d) == d.interrupt_data[STATE_DATA_IN_BUFFER_STATUS]

owusb_isidle_halt(d) == BitAnd(d.interrupt_data[STATE_STATUS_FLAGS], 16)

owusb_isidle(d) == BitAnd(d.interrupt_data[STATE_STATUS_FLAGS], 32)

RECURSIVE result_loop(_, _, _)
result_loop(d, i, result) ==
    IF i >= d.interrupt_len THEN result
    ELSE result_loop(d, i + 1,
             IF d.interrupt_data[STATE_COMBYTE2] = RESULT_DETECT
             THEN BitOr(result, RESULT_XDETECT)
             ELSE BitOr(result, d.interrupt_data[i]))

owusb_result(d) == result_loop(d, 16, 0)

\* the loop conditions of owusb_wait_until_idle and owusb_wait_for_presence
wait_until_idle_again(d) == owusb_isidle(d) = 0

wait_for_presence_again(d) == owusb_result(d) # 165

MaxPolls == 3       \* interrupt reads made on one handle

\* reports of the controller: status byte, second command byte, data-in
\* count and the first two result bytes
Report(status, com2, datain, r16, r17) ==
    [i \in 0..(INTERRUPT_DATA_LEN - 1) |->
        IF i = STATE_STATUS_FLAGS THEN status
        ELSE IF i = STATE_COMBYTE2 THEN com2
        ELSE IF i = STATE_DATA_IN_BUFFER_STATUS THEN datain
        ELSE IF i = 16 THEN r16
        ELSE IF i = 17 THEN r17
        ELSE 0]

Reports ==
    {Report(0, 66, 0, 0, 0), Report(32, 165, 8, 1, 0),
     Report(32, 66, 0, 165, 0), Report(48, 66, 8, 1, 128)}

\* what usb_interrupt_read returns: a failure, or the bytes delivered
InterruptLens == {-1, 16, 17, 32}

InitPoll ==
    /\ bus = {}
    /\ dev = InitDev
    /\ Idle

\* an operation that makes no call in progress and touches no buffer
PollFrame == UNCHANGED <<bus, data, hist, readdata, readdata0, rx>>

\* one interrupt read of a call: the handle and the transport record after it
PollRead(calls, nextpc) ==
    /\ dev.interrupt_count < MaxPolls
    /\ \E r \in InterruptLens, report \in Reports :
           /\ dev' = owusb_interrupt_read(dev, r, report)
           /\ io' = Append(calls, InterruptRead(r))
    /\ pc' = nextpc

DoInterruptRead ==
    /\ pc = "idle"
    /\ PollRead(<<>>, "idle")
    /\ op' = "interrupt_read"
    /\ args' = <<>>
    /\ ret' = 0
    /\ dev0' = dev
    /\ PollFrame

IsIdle ==
    /\ pc = "idle"
    /\ op' = "isidle"
    /\ args' = <<>>
    /\ ret' = owusb_isidle(dev)
    /\ io' = <<>>
    /\ dev0' = dev
    /\ UNCHANGED <<dev, pc>>
    /\ PollFrame

DataIn ==
    /\ pc = "idle"
    /\ op' = "datain"
    /\ args' = <<>>
    /\ ret' = owusb_datain(dev)
    /\ io' = <<>>
    /\ dev0' = dev
    /\ UNCHANGED <<dev, pc>>
    /\ PollFrame

Result ==
    /\ pc = "idle"
    /\ op' = "result"
    /\ args' = <<>>
    /\ ret' = owusb_result(dev)
    /\ io' = <<>>
    /\ dev0' = dev
    /\ UNCHANGED <<dev, pc>>
    /\ PollFrame

PresenceDetect ==
    /\ pc = "idle"
    /\ PollRead(<<>>, "idle")
    /\ op' = "presence_detect"
    /\ args' = <<>>
    /\ ret' = BitAnd(owusb_result(dev'), RESULT_XDETECT)
    /\ dev0' = dev
    /\ PollFrame

\* owusb_wait_until_idle: the first interrupt read, then the loop
WaitUntilIdle ==
    /\ pc = "idle"
    /\ PollRead(<<>>, "wait_until_idle")
    /\ op' = "wait_until_idle"
    /\ args' = <<>>
    /\ ret' = 0
    /\ dev0' = dev
    /\ PollFrame

WaitUntilIdlePoll ==
    /\ pc = "wait_until_idle"
    /\ wait_until_idle_again(dev)
    /\ PollRead(io, "wait_until_idle")
    /\ UNCHANGED <<op, args, ret, dev0>>
    /\ PollFrame

WaitUntilIdleReturn ==
    /\ pc = "wait_until_idle"
    /\ ~wait_until_idle_again(dev)
    /\ pc' = "idle"
    /\ UNCHANGED <<dev, op, args, ret, io, dev0>>
    /\ PollFrame

\* owusb_wait_for_presence: the first interrupt read, then the loop
WaitForPresence ==
    /\ pc = "idle"
    /\ PollRead(<<>>, "wait_for_presence")
    /\ op' = "wait_for_presence"
    /\ args' = <<>>
    /\ ret' = 0
    /\ dev0' = dev
    /\ PollFrame

WaitForPresencePoll ==
    /\ pc = "wait_for_presence"
    /\ wait_for_presence_again(dev)
    /\ PollRead(io, "wait_for_presence")
    /\ UNCHANGED <<op, args, ret, dev0>>
    /\ PollFrame

WaitForPresenceReturn ==
    /\ pc = "wait_for_presence"
    /\ ~wait_for_presence_again(dev)
    /\ pc' = "idle"
    /\ UNCHANGED <<dev, op, args, ret, io, dev0>>
    /\ PollFrame

\* owusb_search: the write of eight zero bytes and the search-access command
\* (each ends the call when it fails), the first interrupt read, the loop,
\* and the bulk read that ends the call
search_all_params == BitOr(PARAM_F, BitOr(PARAM_RST, PARAM_IM))

search_all_calls(type, wr, ctl) ==
    <<BulkWrite(Bytes(Zeros8, 8), wr)>>
        \o (IF wr < 0 THEN <<>>
            ELSE <<Control(owusb_com_search_access(search_all_params, 0, 1, 0, type), ctl)>>)

Search ==
    /\ pc = "idle"
    /\ \E type \in SearchCmds, wr \in {-1, 8}, ctl \in {-1, 0} :
           /\ op' = "search"
           /\ args' = [type |-> type, len |-> 8]
           /\ dev0' = dev
           /\ IF wr < 0 \/ ctl < 0
              THEN /\ io' = search_all_calls(type, wr, ctl)
                   /\ ret' = IF wr < 0 THEN wr ELSE ctl
                   /\ UNCHANGED <<dev, pc>>
              ELSE /\ PollRead(search_all_calls(type, wr, ctl), "search")
                   /\ ret' = 0
    /\ UNCHANGED <<bus, data, hist, readdata, readdata0, rx>>

SearchPoll ==
    /\ pc = "search"
    /\ owusb_isidle(dev) = 0
    /\ PollRead(io, "search")
    /\ UNCHANGED <<op, args, ret, dev0>>
    /\ PollFrame

SearchReturn ==
    /\ pc = "search"
    /\ owusb_isidle(dev) # 0
    /\ \E r \in {-1, 0, 8}, a \in {Address(1, 0, 0), Address(2, 40, 128)} :
           /\ ret' = r
           /\ io' = Append(io, BulkRead(args.len, r))
           /\ data' = IF r = 8 THEN a ELSE data
           /\ rx' = IF r = 8 THEN Bytes(a, 8) ELSE <<>>
    /\ pc' = "idle"
    /\ UNCHANGED <<dev, bus, op, args, hist, readdata, readdata0, dev0>>

NextPoll ==
    \/ DoInterruptRead
    \/ IsIdle
    \/ DataIn
    \/ Result
    \/ PresenceDetect
    \/ WaitUntilIdle
    \/ WaitUntilIdlePoll
    \/ WaitUntilIdleReturn
    \/ WaitForPresence
    \/ WaitForPresencePoll
    \/ WaitForPresenceReturn
    \/ Search
    \/ SearchPoll
    \/ SearchReturn

SpecPoll == InitPoll /\ [][NextPoll]_vars


(***************************************************************************)
(* The command operations called on their own.  Each makes one control     *)
(* transfer and returns what it returned.                                  *)
(***************************************************************************)
\* a control transfer with a data phase of msg.length bytes, as recorded in io
ControlData(msg, r) ==
    [call |-> "control", request |-> msg.request, value |-> msg.value,
     index |-> msg.index, length |-> msg.length, ret |-> r]

\* flag words: none, IM, RST|IM, F|NTF|ICP|IM, every documented bit
ComParams == {0, 1, 257, 3585, 32521}

\* one-byte operands
ComLens == {0, 1, 127, 128, 255}

\* operands of the Mode commands
ModValues == {0, 1, 3, 15, 255}

CmdFrame == UNCHANGED <<dev, bus, data, hist, readdata, readdata0, rx, pc>>

CtlCall(name, a, msg, rets) ==
    \E r \in rets :
        /\ op' = name
        /\ args' = a
        /\ ret' = r
        /\ io' = <<ControlData(msg, r)>>
        /\ dev0' = dev
        /\ CmdFrame

ComCall(name, a, msg) ==
    \E r \in {-1, 0} :
        /\ op' = name
        /\ args' = a
        /\ ret' = r
        /\ io' = <<Control(msg, r)>>
        /\ dev0' = dev
        /\ CmdFrame

CtlReset == CtlCall("ctl_reset", <<>>, owusb_ctl_reset, {-1, 0})

CtlStartExe == CtlCall("ctl_start_exe", <<>>, owusb_ctl_start_exe, {-1, 0})

CtlResumeExe == CtlCall("ctl_resume_exe", <<>>, owusb_ctl_resume_exe, {-1, 0})

CtlHaltExeIdle == CtlCall("ctl_halt_exe_idle", <<>>, owusb_ctl_halt_exe_idle, {-1, 0})

CtlHaltExeDone == CtlCall("ctl_halt_exe_done", <<>>, owusb_ctl_halt_exe_done, {-1, 0})

CtlFlushCommCmds == CtlCall("ctl_flush_comm_cmds", <<>>, owusb_ctl_flush_comm_cmds, {-1, 0})

CtlFlushRcvBuffer == CtlCall("ctl_flush_rcv_buffer", <<>>, owusb_ctl_flush_rcv_buffer, {-1, 0})

CtlFlushXmtBuffer == CtlCall("ctl_flush_xmt_buffer", <<>>, owusb_ctl_flush_xmt_buffer, {-1, 0})

CtlGetCommCmds ==
    \E len \in {0, 2, 16} :
        CtlCall("ctl_get_comm_cmds", [len |-> len], owusb_ctl_get_comm_cmds(len), {-1, 0, len})

ModPulseEn ==
    \E v \in ModValues : ComCall("mod_pulse_en", [value |-> v], owusb_mod_pulse_en(v))

ModSpeedChangeEn ==
    \E v \in ModValues : ComCall("mod_speed_change_en", [value |-> v], owusb_mod_speed_change_en(v))

ModSpeed ==
    \E v \in ModValues : ComCall("mod_speed", [value |-> v], owusb_mod_speed(v))

ModStrongPuDuration ==
    \E v \in ModValues : ComCall("mod_strong_pu_duration", [value |-> v], owusb_mod_strong_pu_duration(v))

ModPulldownSlewrate ==
    \E v \in ModValues : ComCall("mod_pulldown_slewrate", [value |-> v], owusb_mod_pulldown_slewrate(v))

ModProgPulseDuration ==
    \E v \in ModValues : ComCall("mod_prog_pulse_duration", [value |-> v], owusb_mod_prog_pulse_duration(v))

ModWrite1Lowtime ==
    \E v \in ModValues : ComCall("mod_write1_lowtime", [value |-> v], owusb_mod_write1_lowtime(v))

ModDsow0Trec ==
    \E v \in ModValues : ComCall("mod_dsow0_trec", [value |-> v], owusb_mod_dsow0_trec(v))

ComSetDuration ==
    \E params \in ComParams, type \in {0, 1}, duration \in ComLens :
        ComCall("com_set_duration", [params |-> params, type |-> type, duration |-> duration],
                owusb_com_set_duration(params, type, duration))

ComPulse ==
    \E params \in ComParams, type \in {0, 1} :
        ComCall("com_pulse", [params |-> params, type |-> type],
                owusb_com_pulse(params, type))

ComReset ==
    \E params \in ComParams, present \in {0, 1}, speed \in 0..2 :
        ComCall("com_reset", [params |-> params, present |-> present, speed |-> speed],
                owusb_com_reset(params, present, speed))

ComBitIO ==
    \E params \in ComParams, bit \in {0, 1} :
        ComCall("com_bit_io", [params |-> params, bit |-> bit],
                owusb_com_bit_io(params, bit))

ComByteIO ==
    \E params \in ComParams, byte \in ComLens :
        ComCall("com_byte_io", [params |-> params, byte |-> byte],
                owusb_com_byte_io(params, byte))

ComBlockIO ==
    \E params \in ComParams, len \in ComLens :
        ComCall("com_block_io", [params |-> params, len |-> len],
                owusb_com_block_io(params, len))

ComMatchAccess ==
    \E params \in ComParams, speed \in 0..2, cmd \in {85, 105} :
        ComCall("com_match_access", [params |-> params, speed |-> speed, cmd |-> cmd],
                owusb_com_match_access(params, speed, cmd))

ComReadStraight ==
    \E params \in ComParams, writelen \in ComLens, readlen \in ComLens :
        ComCall("com_read_straight",
                [params |-> params, writelen |-> writelen, readlen |-> readlen],
                owusb_com_read_straight(params, writelen, readlen))

ComDoAndRelease ==
    \E params \in ComParams, len \in ComLens :
        ComCall("com_do_and_release", [params |-> params, len |-> len],
                owusb_com_do_and_release(params, len))

ComSetPath ==
    \E params \in ComParams, len \in ComLens :
        ComCall("com_set_path", [params |-> params, len |-> len],
                owusb_com_set_path(params, len))

ComWriteSramPage ==
    \E params \in ComParams, len \in ComLens :
        ComCall("com_write_sram_page", [params |-> params, len |-> len],
                owusb_com_write_sram_page(params, len))

ComWriteEprom ==
    \E params \in ComParams, len \in ComLens :
        ComCall("com_write_eprom", [params |-> params, len |-> len],
                owusb_com_write_eprom(params, len))

ComReadCrcProtPage ==
    \E params \in ComParams, page_count \in ComLens, page_size \in ComLens :
        ComCall("com_read_crc_prot_page",
                [params |-> params, page_count |-> page_count, page_size |-> page_size],
                owusb_com_read_crc_prot_page(params, page_count, page_size))

ComReadRedirectPage ==
    \E params \in ComParams, page_number \in ComLens, page_size \in ComLens :
        ComCall("com_read_redirect_page",
                [params |-> params, page_number |-> page_number, page_size |-> page_size],
                owusb_com_read_redirect_page(params, page_number, page_size))

NextCtl ==
    \/ CtlReset
    \/ CtlStartExe
    \/ CtlResumeExe
    \/ CtlHaltExeIdle
    \/ CtlHaltExeDone
    \/ CtlFlushCommCmds
    \/ CtlFlushRcvBuffer
    \/ CtlFlushXmtBuffer
    \/ CtlGetCommCmds

NextMod ==
    \/ ModPulseEn
    \/ ModSpeedChangeEn
    \/ ModSpeed
    \/ ModStrongPuDuration
    \/ ModPulldownSlewrate
    \/ ModProgPulseDuration
    \/ ModWrite1Lowtime
    \/ ModDsow0Trec

NextCom ==
    \/ ComSetDuration
    \/ ComPulse
    \/ ComReset
    \/ ComBitIO
    \/ ComByteIO
    \/ ComBlockIO
    \/ ComMatchAccess
    \/ ComReadStraight
    \/ ComDoAndRelease
    \/ ComSetPath
    \/ ComWriteSramPage
    \/ ComWriteEprom
    \/ ComReadCrcProtPage
    \/ ComReadRedirectPage
    \/ ComSearchAccess

\* a command is called when the record of the last call has been cleared
NextCmd ==
    \/ op = "init" /\ NextCtl
    \/ op = "init" /\ NextMod
    \/ op = "init" /\ NextCom
    \/ CallDone

InitCmd ==
    /\ bus = {}
    /\ dev \in EncDevs
    /\ Idle

SpecCmd == InitCmd /\ [][NextCmd]_vars


(***************************************************************************)
(* owusb_write_byte and owusb_reset, and all the operations together.  A   *)
(* run works a fresh handle with one group of operations: the search       *)
(* calls, the byte-level calls, the decoder and poll loops, or the single  *)
(* commands.                                                               *)
(***************************************************************************)
DoWriteByte ==
    \E byte \in ComLens :
        ComCall("write_byte", [byte |-> byte],
                owusb_com_byte_io(BitOr(PARAM_ICP, PARAM_IM), byte))

\* owusb_reset returns the accumulated result of the stored report
Reset ==
    \E r \in {-1, 0} :
        /\ op' = "reset"
        /\ args' = <<>>
        /\ ret' = owusb_result(dev)
        /\ io' = <<Control(owusb_com_reset(BitOr(PARAM_F, BitOr(PARAM_IM, PARAM_NTF)), 0, 0), r)>>
        /\ dev0' = dev
        /\ CmdFrame

\* owusb_reset on a handle whose stored report the interrupt reads made
\* before it have set
NextReset == DoInterruptRead \/ Reset

SpecReset == InitPoll /\ [][NextReset]_vars

PollOps ==
    {"interrupt_read", "isidle", "datain", "result", "presence_detect",
     "wait_until_idle", "wait_for_presence", "search"}

InitAll ==
    /\ bus = {Address(2, 0, 0), Address(3, 0, 0)}
    /\ dev = InitDev
    /\ Idle

NextAll ==
    \/ op \in {"init", "search_first", "search_next"} /\ Next
    \/ op \in {"init"} \cup PollOps /\ NextPoll
    \/ BlockIO
    \/ Cmd
    \/ ReadBit
    \/ op = "init" /\ NextCtl
    \/ op = "init" /\ NextMod
    \/ op = "init" /\ NextCom
    \/ op = "init" /\ DoWriteByte
    \/ op = "init" /\ Reset
    \/ op \notin {"search_first", "search_next"} \cup PollOps /\ CallDone

SpecAll == InitAll /\ [][NextAll]_vars


(***************************************************************************)
(* Properties of the search calls.                                         *)
(***************************************************************************)
SearchOps == {"search_first", "search_next"}

\* the addresses the calls recorded in hist returned
Returned == {hist[k].addr : k \in {j \in 1..Len(hist) : hist[j].ret = 1}}

\* a transport call of the last operation failed
TransportFailed == \E k \in 1..Len(io) : io[k].ret < 0

\* C1: on a bus with exactly one device, owusb_search_first returns 1 with
\* that device's address and sets the stop flag, and every owusb_search_next
\* after it returns 0 (the transport calls delivering all there was).
C1_SingleDevice ==
    (Cardinality(bus) = 1 /\ hist # <<>>) =>
        /\ hist[1].ret = 1
        /\ hist[1].addr \in bus
        /\ dev.search_stop = 1
        /\ \A k \in 2..Len(hist) : hist[k].ret = 0

C1_Witness ==
    /\ Cardinality(bus) = 1
    /\ Len(hist) >= 3
    /\ hist[1].ret = 1
    /\ op = "search_next"
    /\ ret = 0

\* C2: on a bus with exactly two devices whose addresses differ only in the
\* lowest address bit, owusb_search_first and the owusb_search_next calls
\* after it return the smaller address, then the larger one, then 0.
C2_TwoDevices ==
    \A a, b \in bus :
        ( /\ bus = {a, b}
          /\ a[0] % 2 = 0
          /\ b = [a EXCEPT ![0] = a[0] + 1]
          /\ hist # <<>> ) =>
            /\ hist[1] = [ret |-> 1, addr |-> a]
            /\ Len(hist) >= 2 => hist[2] = [ret |-> 1, addr |-> b]
            /\ \A k \in 3..Len(hist) : hist[k].ret = 0

\* C3: for every bus, the calls owusb_search_first, owusb_search_next, ...
\* never return an address a second time, and once a call returns 0 every
\* device of the bus has been returned.
C3_SearchCoversBus ==
    hist # <<>> =>
        /\ \A j, k \in 1..Len(hist) :
               (j < k /\ hist[j].ret = 1 /\ hist[k].ret = 1) => hist[j].addr # hist[k].addr
        /\ (\E k \in 1..Len(hist) : hist[k].ret = 0) => Returned = bus

\* C4: when the bulk read of owusb_search_first delivers fewer than 8 bytes,
\* the call returns 0, sets the stop flag and leaves the caller's buffer as
\* it was; every owusb_search_next after a call that returned 0 with the stop
\* flag set returns 0 and makes no transport call.
ShortFirstRead(t) == Len(t) = 3 /\ t[3].ret < 8

C4_ShortFirstRead ==
    [][ /\ (op' = "search_first" /\ ShortFirstRead(io')) =>
               (ret' = 0 /\ dev'.search_stop = 1 /\ data' = data)
        /\ (op \in SearchOps /\ ret = 0 /\ dev.search_stop = 1 /\ op' = "search_next") =>
               (ret' = 0 /\ io' = <<>> /\ dev'.search_stop = 1 /\ data' = data) ]_vars

C4_Witness ==
    /\ bus = {}
    /\ Len(hist) >= 3
    /\ hist[1].ret = 0
    /\ io = <<>>
    /\ op = "search_next"
    /\ ret = 0
    /\ dev.search_stop = 1
    /\ data = Filler8

\* C8: a search call in which a transport call failed never ends as a call
\* ended by a short read does, with return value 0 and the stop flag set.
C8_FailureDistinct ==
    (op \in SearchOps /\ TransportFailed) => ~(ret = 0 /\ dev.search_stop = 1)

\* C10: with the stop flag set, owusb_search_next returns 0, makes no
\* transport call and changes neither the handle nor the caller's buffer;
\* only owusb_search_first clears the stop flag.
C10_StopAbsorbing ==
    [][ /\ (dev.search_stop # 0 /\ op' = "search_next") =>
               (ret' = 0 /\ io' = <<>> /\ dev' = dev /\ data' = data)
        /\ (dev.search_stop # 0 /\ dev'.search_stop = 0) => op' = "search_first" ]_vars

C10_Witness ==
    /\ op = "search_next"
    /\ args = 0
    /\ dev.search_stop = 1
    /\ io = <<>>
    /\ ret = 0
    /\ Len(hist) >= 4
    /\ hist[2].ret = 1

\* C11: whatever the handle held before, owusb_search_first records the given
\* ROM command and performs one search step from a zero bitmap and a clear
\* stop flag: the step's bulk write carries eight zero bytes, its control
\* transfer carries the command in the low byte of wIndex, and the stop flag
\* and bitmap afterwards are those this one step produced.
C11_SearchFirstResets ==
    op = "search_first" =>
        /\ dev.search_cmd = args
        /\ Len(io) \in 1..3
        /\ io[1].call = "bulk_write"
        /\ io[1].data = <<0, 0, 0, 0, 0, 0, 0, 0>>
        /\ Len(io) >= 2 => (io[2].call = "control" /\ io[2].index % 256 = args)
        /\ Len(io) = 3 => io[3].call = "bulk_read"
        /\ dev.search_stop # 0 => (Len(io) = 3 /\ io[3].ret # 16)
        /\ (Len(io) < 3 \/ io[3].ret # 16) => dev.discrepancy = Zeros8

C11_Witness ==
    /\ op = "search_first"
    /\ dev0.discrepancy # Zeros8
    /\ dev0.search_cmd # args
    /\ Len(io) = 3
    /\ io[1].data = <<0, 0, 0, 0, 0, 0, 0, 0>>
    /\ io[2].index % 256 = args
    /\ io[3].ret = 8
    /\ dev.discrepancy = Zeros8

\* the address and the discrepancy block of a 16-byte read
RxAddr == [k \in 0..7 |-> rx[k + 1]]
RxDisc == [k \in 0..7 |-> rx[k + 9]]

\* the bit positions of byte k where the block has 1 and the address has 0
OpenBits(k) ==
    {b \in 0..7 : (RxDisc[k] \div (2 ^ b)) % 2 = 1 /\ (RxAddr[k] \div (2 ^ b)) % 2 = 0}

\* C19: after a search step that read 16 bytes, with j the highest byte in
\* which the discrepancy block has a bit set where the address has 0 and m
\* the highest such bit of it, the bitmap is m | (A[j] & D[j] & (m-1)) at j,
\* 0 above j and A[k] & D[k] below j.
C19_BitmapUpdate ==
    (op \in SearchOps /\ Len(rx) = 16 /\ \E k \in 0..7 : OpenBits(k) # {}) =>
        LET j == CHOOSE k \in 0..7 :
                     OpenBits(k) # {} /\ \A h \in (k + 1)..7 : OpenBits(h) = {}
            m == 2 ^ (CHOOSE b \in OpenBits(j) : \A c \in OpenBits(j) : c <= b)
        IN  dev.discrepancy =
                [k \in 0..7 |->
                    IF k > j THEN 0
                    ELSE IF k = j THEN m + BitAnd(BitAnd(RxAddr[j], RxDisc[j]), m - 1)
                    ELSE BitAnd(RxAddr[k], RxDisc[k])]

\* C20: an owusb_search_next call made with the stop flag clear makes, in
\* order and up to the first that fails, a bulk write of the 8 bytes of the
\* bitmap, one search-access control transfer with wValue 0x49FD (0xF4 with
\* the flags 0x4000, 0x0800, 0x0100, 0x0008, 0x0001) and wIndex 0x0100 | the
\* recorded ROM command, and one bulk read of 16 bytes.
C20_SearchStepCalls ==
    (op = "search_next" /\ dev0.search_stop = 0) =>
        /\ Len(io) \in 1..3
        /\ io[1].call = "bulk_write"
        /\ io[1].data = [k \in 1..8 |-> dev0.discrepancy[k - 1]]
        /\ Len(io) >= 2 <=> io[1].ret >= 0
        /\ Len(io) >= 2 =>
               /\ io[2].call = "control"
               /\ io[2].request = 1
               /\ io[2].value = 18941
               /\ io[2].index = 256 + dev0.search_cmd
               /\ Len(io) = 3 <=> io[2].ret >= 0
        /\ Len(io) = 3 => (io[3].call = "bulk_read" /\ io[3].len = 16)

C20_Witness ==
    /\ op = "search_next"
    /\ dev0.search_stop = 0
    /\ dev0.discrepancy # Zeros8
    /\ Len(io) = 3
    /\ io[1].data = [k \in 1..8 |-> dev0.discrepancy[k - 1]]
    /\ io[2].value = 18941
    /\ io[2].index = 256 + dev0.search_cmd
    /\ io[3].ret = 8

\* C20 as claimed: the call makes all three transfers, and the control
\* transfer's wValue is 0x41FD: 0xF4 with the flags 0x4000, 0x0100, 0x0008,
\* 0x0001 and no other.
C20_SearchStepClaimed ==
    (op = "search_next" /\ dev0.search_stop = 0) =>
        /\ Len(io) = 3
        /\ io[1].call = "bulk_write"
        /\ io[1].data = [k \in 1..8 |-> dev0.discrepancy[k - 1]]
        /\ io[2].call = "control"
        /\ io[2].value = 16893
        /\ io[2].index = 256 + dev0.search_cmd
        /\ io[3].call = "bulk_read"
        /\ io[3].len <= 16

(***************************************************************************)
(* Properties of owusb_block_io, owusb_cmd and owusb_read_bit.             *)
(***************************************************************************)
\* a byte the data-in read delivered among the first writedatalen differs
\* from the byte written
EchoDiffers ==
    \E k \in 1..args.writedatalen : k <= Len(rx) /\ rx[k] # args.writedata[k]

\* C5: when a byte read back among the first writedatalen differs from the
\* byte written, owusb_block_io returns -1 and copies no byte received into
\* the caller's read buffer: its first readdatalen bytes hold the 0xFF
\* filler written before the transfer, the others what they held.
C5_VerifyFailure ==
    (op = "block_io" /\ EchoDiffers) =>
        /\ ret = -1
        /\ \A k \in DOMAIN readdata :
               readdata[k] = IF k < args.readdatalen THEN 255 ELSE readdata0[k]

C5_Witness ==
    /\ op = "block_io"
    /\ args.writedatalen = 2
    /\ args.readdatalen = 1
    /\ Len(rx) = 3
    /\ rx[1] # args.writedata[1]
    /\ ret = -1
    /\ readdata[0] = 255
    /\ readdata[1] = 17

\* C5 as claimed: on such a mismatch the call returns non-zero and the read
\* buffer holds what it held before the call.
C5_BufferUntouched ==
    (op = "block_io" /\ EchoDiffers) => (ret # 0 /\ readdata = readdata0)

\* C6: when owusb_block_io returns 0 with readdatalen > 0, the data-in read
\* delivered writedatalen + readdatalen bytes and the read buffer holds the
\* last readdatalen of them.
C6_ReadBack ==
    (op = "block_io" /\ ret = 0 /\ args.readdatalen > 0) =>
        /\ Len(rx) >= args.writedatalen + args.readdatalen
        /\ \A k \in 0..(args.readdatalen - 1) :
               readdata[k] = rx[args.writedatalen + k + 1]

\* C7: in owusb_block_io, owusb_cmd and owusb_read_bit a transport call that
\* returns a negative value is the last one made, and the operation returns
\* a negative value.
C7_AbortOnFailure ==
    op \in {"block_io", "cmd", "read_bit"} =>
        \A k \in 1..Len(io) : io[k].ret < 0 => (k = Len(io) /\ ret < 0)

\* C21: owusb_block_io makes, in order, a bulk write of the write bytes when
\* writedatalen > 0, a bulk write of readdatalen bytes 0xFF when
\* readdatalen > 0, one block-I/O control transfer with wValue 0x74 |
\* immediate | reset 0x0100 when asked | strong pullup 0x1000 when asked and
\* wIndex writedatalen + readdatalen, and last one bulk read of up to 128
\* bytes.
C21_BlockIOCalls ==
    op = "block_io" =>
        LET wl == args.writedatalen
            rl == args.readdatalen
            nw == (IF wl > 0 THEN 1 ELSE 0) + (IF rl > 0 THEN 1 ELSE 0)
        IN  /\ Len(io) = nw + 2
            /\ wl > 0 => (io[1].call = "bulk_write" /\ io[1].data = args.writedata)
            /\ rl > 0 => /\ io[nw].call = "bulk_write"
                         /\ Len(io[nw].data) = rl
                         /\ \A k \in 1..rl : io[nw].data[k] = 255
            /\ io[nw + 1].call = "control"
            /\ io[nw + 1].request = 1
            /\ io[nw + 1].value = 117 + (IF args.reset # 0 THEN 256 ELSE 0)
                                      + (IF args.spu # 0 THEN 4096 ELSE 0)
            /\ io[nw + 1].index = wl + rl
            /\ io[nw + 2].call = "bulk_read"
            /\ io[nw + 2].len = 128

C21_Witness ==
    /\ op = "block_io"
    /\ args.writedatalen = 2
    /\ args.readdatalen = 1
    /\ args.reset = 1
    /\ args.spu = 1
    /\ Len(io) = 4
    /\ io[2].data = <<255>>
    /\ io[3].value = 4469
    /\ io[3].index = 3
    /\ io[4].call = "bulk_read"

\* C25: owusb_block_io reads tmpbuf[] only at indices 0..127, whatever
\* lengths it is called with.
C25_TmpbufInBounds ==
    op = "block_io" =>
        block_io_tmpbuf(args.writedatalen, args.readdatalen, ret)
            \subseteq 0..(DS2490_FIFOSIZE - 1)

(***************************************************************************)
(* Properties of the state/result decoder and the poll loops.              *)
(***************************************************************************)
\* C12: owusb_isidle returns non-zero exactly when bit 0x20 of report byte 8
\* is set, owusb_datain returns report byte 13; neither makes a transport
\* call nor changes the handle.
C12_DecoderPure ==
    [][ /\ op' = "isidle" =>
               /\ (ret' # 0) <=> ((dev.interrupt_data[8] \div 32) % 2 = 1)
               /\ io' = <<>>
               /\ dev' = dev
        /\ op' = "datain" =>
               /\ ret' = dev.interrupt_data[13]
               /\ io' = <<>>
               /\ dev' = dev ]_vars

C12_Witness ==
    /\ op = "isidle"
    /\ dev.interrupt_data[8] = 48
    /\ ret = 32
    /\ dev.interrupt_count >= 2
    /\ io = <<>>
    /\ dev = dev0

\* the bits set in some report byte at 16..interrupt_len-1
ResultBits(d) ==
    UNION {{b \in 0..7 : (d.interrupt_data[i] \div (2 ^ b)) % 2 = 1} :
              i \in 16..(d.interrupt_len - 1)}

\* C13: whatever length the last interrupt read recorded, owusb_result has
\* bit 0x0100 set when report byte 0x0A is 0xA5, and is the OR of report
\* bytes 16..interrupt_len-1 when it is not.
C13_ResultPresence ==
    op = "result" =>
        IF dev.interrupt_data[10] = 165
        THEN (ret \div 256) % 2 = 1
        ELSE {b \in 0..15 : (ret \div (2 ^ b)) % 2 = 1} = ResultBits(dev)

\* the accumulated result of the stored report holds the device-present bit
PresentBit(d) == (owusb_result(d) \div 256) % 2 = 1

\* C14: inside owusb_wait_for_presence, the call returns without a further
\* interrupt read when the accumulated result of the stored report holds
\* bit 0x0100, and makes one more interrupt read when it does not.
C14_WaitForPresence ==
    [][ pc = "wait_for_presence" =>
            IF PresentBit(dev)
            THEN pc' = "idle" /\ io' = io
            ELSE pc' = "wait_for_presence" /\ Len(io') = Len(io) + 1 ]_vars

\* the condition a poll loop waits for has not been seen in the stored report
NotObserved ==
    \/ pc \in {"wait_until_idle", "search"} /\ owusb_isidle(dev) = 0
    \/ pc = "wait_for_presence" /\ ~PresentBit(dev)

\* C15: when the last interrupt read of a poll loop failed and the awaited
\* condition has not been seen, the call makes no further interrupt read: it
\* ends.
C15_PollFailureEnds ==
    [][ (NotObserved /\ dev.interrupt_len < 0) =>
            (pc' = "idle" /\ dev'.interrupt_count = dev.interrupt_count) ]_vars

\* C22: when owusb_search makes its bulk read, the interrupt read before it,
\* made after the search-access command, delivered report byte 8 and that
\* byte has the idle bit 0x20 set.
C22_ReadAfterIdle ==
    (op = "search" /\ pc = "idle" /\ Len(io) > 2) =>
        LET n == Len(io)
        IN  /\ io[n].call = "bulk_read"
            /\ io[n - 1].call = "interrupt_read"
            /\ io[n - 1].ret > 8
            /\ (dev.interrupt_data[8] \div 32) % 2 = 1

\* C23: after owusb_interrupt_read the report counter is one higher, and
\* what owusb_isidle and owusb_datain find in the stored report was
\* delivered by this read: byte 8 and byte 13 lie within the bytes it
\* delivered.
C23_ReportReplaced ==
    op = "interrupt_read" =>
        /\ dev.interrupt_count = dev0.interrupt_count + 1
        /\ owusb_isidle(dev) # 0 => io[1].ret > 8
        /\ owusb_datain(dev) # 0 => io[1].ret > 13

\* C26: owusb_reset makes one transport call, the reset command with
\* wValue 0x0C43 (0x42 with flags F, NTF and IM) and wIndex 0, and no
\* interrupt read; the handle, the stored report with it, is as the call
\* found it; the return value is owusb_result of that stored report,
\* whatever the reset command returned.
C26_ResetResult ==
    op = "reset" =>
        /\ Len(io) = 1
        /\ io[1].call = "control"
        /\ io[1].request = 1
        /\ io[1].value = 3139
        /\ io[1].index = 0
        /\ dev = dev0
        /\ ret = owusb_result(dev0)

\* a failed reset command on a handle whose stored report carries a result
\* byte: the call returns that result
C26_Witness ==
    /\ op = "reset"
    /\ io[1].ret = -1
    /\ dev.interrupt_count > 0
    /\ dev.interrupt_len > 16
    /\ ret # 0

(***************************************************************************)
(* Properties of the command encoders.                                     *)
(***************************************************************************)
\* the opcode nibble of each Communication command
ComOpcode ==
    [com_set_duration |-> 1, com_bit_io |-> 2, com_pulse |-> 3, com_reset |-> 4,
     com_byte_io |-> 5, com_match_access |-> 6, com_block_io |-> 7,
     com_read_straight |-> 8, com_do_and_release |-> 9, com_set_path |-> 10,
     com_write_sram_page |-> 11, com_write_eprom |-> 12,
     com_read_crc_prot_page |-> 13, com_read_redirect_page |-> 14,
     com_search_access |-> 15]

\* C16: for every Communication command encoder, with documented flags and
\* one-byte operands, bit 0x8000 of the wValue sent is zero and bits 0x00F0
\* hold the command's opcode nibble.
C16_ComValueBits ==
    op \in DOMAIN ComOpcode =>
        /\ io[1].request = 1
        /\ (io[1].value \div 32768) % 2 = 0
        /\ (io[1].value \div 16) % 16 = ComOpcode[op]

\* the request code of each Control operation
CtlCode ==
    [ctl_reset |-> 0, ctl_start_exe |-> 1, ctl_resume_exe |-> 2,
     ctl_halt_exe_idle |-> 3, ctl_halt_exe_done |-> 4, ctl_flush_comm_cmds |-> 7,
     ctl_flush_rcv_buffer |-> 8, ctl_flush_xmt_buffer |-> 9, ctl_get_comm_cmds |-> 10]

\* C17: each Control operation sends bRequest 0 with its own request code in
\* wValue; owusb_ctl_get_comm_cmds sends code 0x000A with a data phase of the
\* caller's length, and no other Control operation has a data phase.
C17_ControlCodes ==
    op \in DOMAIN CtlCode =>
        /\ Len(io) = 1
        /\ io[1].request = 0
        /\ io[1].value = CtlCode[op]
        /\ io[1].length = IF op = "ctl_get_comm_cmds" THEN args.len ELSE 0

\* the control transfer c is the Control command reset-device
IsDeviceReset(c) == c.call = "control" /\ c.request = 0 /\ c.value = 0

\* C18: only owusb_ctl_reset sends the Control command reset-device, and no
\* operation changes the handle's timeout or USB handle, whatever its
\* transport calls returned.
C18_NoAutomaticReset ==
    [][ /\ \A k \in 1..Len(io') : IsDeviceReset(io'[k]) => op' = "ctl_reset"
        /\ dev'.timeout = dev.timeout
        /\ dev'.handle = dev.handle ]_vars

C18_Witness ==
    /\ op = "block_io"
    /\ ret = -1
    /\ EchoDiffers
    /\ Len(io) = 4
    /\ \A k \in 1..Len(io) : ~IsDeviceReset(io[k])
    /\ dev.timeout = 5000
    /\ dev.handle = "h"

\* C24: owusb_com_match_access sends wValue 0x64 | params and wIndex
\* (speed << 8) | cmd: the low byte of wIndex is cmd, the high byte speed.
C24_MatchAccessIndex ==
    op = "com_match_access" =>
        /\ io[1].value = BitOr(COM_MATCH_ACCESS, args.params)
        /\ io[1].index % 256 = args.cmd
        /\ io[1].index \div 256 = args.speed

(***************************************************************************)
(* Properties of the search-access encoder.                                *)
(***************************************************************************)
\* the positions of the 1 bits of a 16-bit word
BitsOf(n) == {i \in 0..15 : (n \div Pow2(i)) % 2 = 1}

\* C9: owusb_com_search_access sends request 1, index device_count * 256 +
\* cmd and a value whose 1 bits are those of 0xF4, those of params, bit 14
\* when discrepancy is set and bit 3 when noaccess is set, whatever the
\* handle holds and whatever was sent before; for flags RST|IM, no
\* discrepancy, noaccess, one device and command 0xF0 that is index 0x01F0
\* and value 0x01FD.
C9_SearchAccessEncoding ==
    op = "com_search_access" =>
        /\ Len(io) = 1
        /\ io[1].call = "control"
        /\ io[1].request = 1
        /\ io[1].index = args.device_count * 256 + args.cmd
        /\ BitsOf(io[1].value) =
               {2, 4, 5, 6, 7} \cup BitsOf(args.params)
                   \cup (IF args.discrepancy # 0 THEN {14} ELSE {})
                   \cup (IF args.noaccess # 0 THEN {3} ELSE {})
        /\ (args = [params |-> 257, discrepancy |-> 0, noaccess |-> 1,
                    device_count |-> 1, cmd |-> 240])
               => (io[1].index = 496 /\ io[1].value = 509)

C9_Witness ==
    /\ op = "com_search_access"
    /\ args = [params |-> 257, discrepancy |-> 0, noaccess |-> 1,
               device_count |-> 1, cmd |-> 240]
    /\ io[1].index = 496
    /\ io[1].value = 509
    /\ dev.search_stop = 1

====
